---- MODULE Spec2Model ----
(***************************************************************************)
(* EpiSense: the data preparation script (data/prepare_data.py), the risk  *)
(* scoring script (data/risk_score.py) and the remote recalculation of the *)
(* dashboard (app.py), each as a state machine over its data frames.       *)
(*                                                                         *)
(* Encoding of values.  A numeric cell of a data frame is a pair <<n, d>>: *)
(* the exact fraction n/d with d > 0 in lowest terms, NaN is <<0, 0>> and  *)
(* +inf is <<1, 0>>.  Floating point rounding is not modelled.  Country    *)
(* codes and names are numbered in their alphabetical order.  A time_dim   *)
(* string "YYYY" + suffix is the number YYYY * 10 + s, s = 0 standing for  *)
(* the empty suffix, so that string order is number order and             *)
(* str.slice(0, 4).astype(int) is integer division by 10.                  *)
(***************************************************************************)
EXTENDS Integers, Sequences, FiniteSets, TLC

VARIABLES
    pc,          \* position of the running script
    error,       \* exception that ended the script, "" when none
    columns,     \* columns of the CSV read by prepare_data.py
    df,          \* prepare_data.py: df (rows of the raw CSV)
    dengue,      \* prepare_data.py: dengue
    pop,         \* prepare_data.py: pop
    dengue_y,    \* prepare_data.py: dengue_y, a frame [columns, rows]
    pop_y,       \* prepare_data.py: pop_y, a frame [columns, rows]
    df_yr,       \* prepare_data.py: df_yr, the feature table
    out_file,    \* rows of episense_annual.csv once written
    feat,        \* risk_score.py: the feature table as read from the CSV
    sdf,         \* risk_score.py: df
    raw_scores,  \* risk_score.py: raw_scores
    scored_file, \* rows of episense_annual_with_risk.csv once written
    app_df,      \* app.py: df
    year,        \* app.py: the year of the slider
    dfy,         \* app.py: dfy, rows carrying their index label
    payload,     \* app.py: payload, the records posted
    before,      \* app.py: dfy as it was when the button was pressed
    outcome,     \* app.py: what the POST came to
    resp_scores, \* app.py: data["risk_score"] of a decoded response
    message      \* app.py: "" | "error" | "success" (st.error / st.success)

vars == <<pc, error, columns, df, dengue, pop, dengue_y, pop_y, df_yr, out_file,
          feat, sdf, raw_scores, scored_file,
          app_df, year, dfy, payload, before, outcome, resp_scores, message>>

prepVars == <<columns, df, dengue, pop, dengue_y, pop_y, df_yr, out_file>>
scoreVars == <<feat, sdf, raw_scores, scored_file>>
appVars == <<app_df, year, dfy, payload, before, outcome, resp_scores, message>>

----------------------------------------------------------------------------
(* Bounds of the model *)

\* most rows in the raw CSV
MaxRows == 3
\* numeric_value of a raw row ranges over 0..MaxValue
MaxValue == 1

----------------------------------------------------------------------------
(* Exact arithmetic on cells *)

NaN == <<0, 0>>
Inf == <<1, 0>>

IsNaN(x) == x = NaN

RECURSIVE GCD(_, _)
GCD(a, b) == IF b = 0 THEN a ELSE GCD(b, a % b)

Abs(n) == IF n < 0 THEN -n ELSE n

\* n/d in lowest terms with a positive denominator; x/0 as float division gives it
Rat(n, d) ==
    IF d = 0 THEN (IF n = 0 THEN NaN ELSE Inf)
    ELSE LET g == GCD(Abs(n), Abs(d))
             s == IF d < 0 THEN -1 ELSE 1
         IN <<(s * n) \div g, (s * d) \div g>>

Num(i) == <<i, 1>>

IsFinite(x) == x[2] > 0

\* x[2] * y[2] / gcd: the common denominator
CommonDen(x, y) == (x[2] \div GCD(x[2], y[2])) * y[2]

RatAdd(x, y) ==
    IF ~IsFinite(x) \/ ~IsFinite(y) THEN NaN
    ELSE LET l == CommonDen(x, y)
         IN Rat(x[1] * (l \div x[2]) + y[1] * (l \div y[2]), l)

RatSub(x, y) ==
    IF ~IsFinite(x) \/ ~IsFinite(y) THEN NaN
    ELSE LET l == CommonDen(x, y)
         IN Rat(x[1] * (l \div x[2]) - y[1] * (l \div y[2]), l)

\* the product of two fractions, reduced crosswise before multiplying
CrossMul(a, b, c, d) ==
    LET g == GCD(Abs(a), Abs(d))
        h == GCD(Abs(c), Abs(b))
        g1 == IF g = 0 THEN 1 ELSE g
        h1 == IF h = 0 THEN 1 ELSE h
    IN Rat((a \div g1) * (c \div h1), (b \div h1) * (d \div g1))

RatMul(x, y) ==
    IF IsNaN(x) \/ IsNaN(y) THEN NaN
    ELSE IF ~IsFinite(x) \/ ~IsFinite(y) THEN Inf
    ELSE CrossMul(x[1], x[2], y[1], y[2])

\* float division: x / 0 is inf, 0 / 0 and anything with NaN is NaN
RatDiv(x, y) ==
    IF ~IsFinite(x) \/ ~IsFinite(y) THEN NaN
    ELSE IF y[1] = 0 THEN (IF x[1] = 0 THEN NaN ELSE Inf)
    ELSE IF y[1] < 0 THEN CrossMul(-x[1], x[2], y[2], -y[1])
    ELSE CrossMul(x[1], x[2], y[2], y[1])

\* x <= y on finite cells
RatLeq(x, y) ==
    LET l == CommonDen(x, y)
    IN x[1] * (l \div x[2]) <= y[1] * (l \div y[2])

RECURSIVE SumSeq(_)
SumSeq(s) == IF s = <<>> THEN Num(0) ELSE RatAdd(s[1], SumSeq(Tail(s)))

\* Series.sum() skips NaN; Series.mean() is NaN on no value
NotNull(s) == SelectSeq(s, LAMBDA x : ~IsNaN(x))
SeriesSum(s) == SumSeq(NotNull(s))
SeriesMean(s) ==
    IF NotNull(s) = <<>> THEN NaN
    ELSE RatDiv(SumSeq(NotNull(s)), Num(Len(NotNull(s))))

----------------------------------------------------------------------------
(* Sequences and ordering *)

Range(s) == {s[i] : i \in DOMAIN s}

\* lexicographic order on tuples of numbers of one length
RECURSIVE LexLess(_, _)
LexLess(a, b) ==
    IF a = <<>> THEN FALSE
    ELSE IF a[1] # b[1] THEN a[1] < b[1]
    ELSE LexLess(Tail(a), Tail(b))

\* the elements of a set of tuples in ascending order
RECURSIVE SortedTuples(_)
SortedTuples(S) ==
    IF S = {} THEN <<>>
    ELSE LET m == CHOOSE x \in S : \A y \in S \ {x} : LexLess(x, y)
         IN <<m>> \o SortedTuples(S \ {m})

\* the value of the columns cols of a row, as a tuple
KeyOf(r, cols) == [i \in DOMAIN cols |-> r[cols[i]]]

----------------------------------------------------------------------------
(* prepare_data.py: the raw CSV *)

Required ==
    {"indicator_name", "nombre_indicador", "spatial_dim_type", "spatial_dim",
     "spatial_dim_en", "spatial_dim_es", "time_dim_type", "time_dim", "numeric_value"}

RawRow(ind, nom, sdt, sd, en, es, tdt, td) ==
    [indicator_name |-> ind, nombre_indicador |-> nom, spatial_dim_type |-> sdt,
     spatial_dim |-> sd, spatial_dim_en |-> en, spatial_dim_es |-> es,
     time_dim_type |-> tdt, time_dim |-> td, numeric_value |-> NaN]

DengueRow(sdt, sd, en, es, tdt, td) ==
    RawRow("Dengue cases", "Casos de dengue", sdt, sd, en, es, tdt, td)
PopRow(sdt, sd, en, es, tdt, td) ==
    RawRow("Total population", "Poblacion total", sdt, sd, en, es, tdt, td)
PopThousandsRow(sdt, sd, en, es, tdt, td) ==
    RawRow("Population (thousands)", "Poblacion (miles)", sdt, sd, en, es, tdt, td)

\* The rows a raw CSV of the model is made of, before their numeric_value:
\* country 1 in the years 2020..2022, under a second English name, with a
\* second time_dim of the year 2020 and with monthly rows; country 2; the
\* population of country 1 as persons, as thousands and monthly; a row that
\* is not of COUNTRY level.
Shapes ==
    << DengueRow("COUNTRY", 1, 1, 1, "YEAR", 20200),
       DengueRow("COUNTRY", 1, 1, 1, "YEAR", 20210),
       DengueRow("COUNTRY", 1, 1, 1, "YEAR", 20220),
       DengueRow("COUNTRY", 1, 2, 1, "YEAR", 20210),
       DengueRow("COUNTRY", 1, 1, 1, "YEAR", 20201),
       DengueRow("COUNTRY", 1, 1, 1, "MONTH", 20201),
       DengueRow(" country", 2, 1, 1, "year ", 20210),
       PopRow("COUNTRY", 1, 1, 1, "YEAR", 20200),
       PopRow("COUNTRY", 1, 1, 1, "YEAR", 20210),
       PopThousandsRow("COUNTRY", 1, 1, 1, "YEAR", 20210),
       PopRow("COUNTRY", 1, 1, 1, "MONTH", 20201),
       PopRow(" country", 2, 1, 1, "year ", 20210),
       DengueRow("REGION", 1, 1, 1, "YEAR", 20210) >>

Values == 0..MaxValue

\* every shape with every numeric_value, in the order of the CSV
RawPool ==
    [i \in 1..(Len(Shapes) * Cardinality(Values)) |->
        [Shapes[((i - 1) \div Cardinality(Values)) + 1]
            EXCEPT !.numeric_value = Num((i - 1) % Cardinality(Values))]]

\* the sets of at most k elements of S
RECURSIVE SubsetsUpTo(_, _)
SubsetsUpTo(S, k) ==
    IF k = 0 THEN {{}}
    ELSE LET P == SubsetsUpTo(S, k - 1)
         IN P \cup {T \cup {x} : T \in P, x \in S}

\* the elements of a set of numbers in ascending order
RECURSIVE Ascending(_)
Ascending(S) ==
    IF S = {} THEN <<>>
    ELSE LET m == CHOOSE x \in S : \A y \in S : x <= y
         IN <<m>> \o Ascending(S \ {m})

\* the raw CSVs of the model: at most MaxRows rows of the pool
RawTables ==
    {[j \in DOMAIN Ascending(I) |-> RawPool[Ascending(I)[j]]] :
        I \in SubsetsUpTo(DOMAIN RawPool, MaxRows)}

----------------------------------------------------------------------------
(* prepare_data.py: string normalisation and the indicator patterns *)

\* str.strip().str.lower() on the indicator names of the model
StripLower(s) ==
    CASE s = "Dengue cases" -> "dengue cases"
      [] s = "Casos de dengue" -> "casos de dengue"
      [] s = "Total population" -> "total population"
      [] s = "Poblacion total" -> "poblacion total"
      [] s = "Population (thousands)" -> "population (thousands)"
      [] s = "Poblacion (miles)" -> "poblacion (miles)"
      [] OTHER -> s

\* str.strip().str.upper() on the dimension types of the model
StripUpper(s) ==
    CASE s = " country" -> "COUNTRY"
      [] s = "year " -> "YEAR"
      [] OTHER -> s

\* r"\bdengue cases\b" on indicator_name_norm
MatchesDengueCases(s) == s \in {"dengue cases"}
\* r"\bdengue\b.*casos|\bcasos\b.*dengue" on nombre_indicador_norm
MatchesCasosDengue(s) == s \in {"casos de dengue"}
\* contains "total population"
ContainsTotalPopulation(s) == s \in {"total population"}
\* contains "population .*thousand"
ContainsPopulationThousand(s) == s \in {"population (thousands)"}
\* match r"^population\b"
StartsWithPopulation(s) == s \in {"population (thousands)"}
\* contains "poblaci"
ContainsPoblaci(s) == s \in {"poblacion total", "poblacion (miles)"}
\* contains "thousand"
ContainsThousand(s) == s \in {"population (thousands)"}
\* contains "mil"
ContainsMil(s) == s \in {"poblacion (miles)"}

\* time_dim.astype(str).str.slice(0, 4).astype(int)
Slice4(td) == td \div 10

----------------------------------------------------------------------------
(* prepare_data.py: data frame operations *)

Frame(cols, rows) == [columns |-> cols, rows |-> rows]

RawColumns == Required \cup {"indicator_name_norm", "nombre_indicador_norm"}

\* DataFrame.rename(columns={old: new})
Rename(f, old, new) ==
    IF old \notin f.columns THEN f
    ELSE Frame((f.columns \ {old}) \cup {new},
               [i \in DOMAIN f.rows |->
                   [c \in (DOMAIN f.rows[i] \ {old}) \cup {new} |->
                       IF c = new THEN f.rows[i][old] ELSE f.rows[i][c]]])

\* df[col] = values (a new or an overwritten column)
WithColumn(f, col, values) ==
    Frame(f.columns \cup {col},
          [i \in DOMAIN f.rows |->
              [c \in DOMAIN f.rows[i] \cup {col} |->
                  IF c = col THEN values[i] ELSE f.rows[i][c]]])

\* the column col of the rows with key k, in row order
GroupValues(rows, key, k, col) ==
    LET sel == SelectSeq(rows, LAMBDA r : KeyOf(r, key) = k)
    IN [i \in DOMAIN sel |-> sel[i][col]]

\* df.groupby(key, as_index=False)[col].sum(): one row per key, keys ascending
GroupBySum(f, key, col) ==
    LET ks == SortedTuples({KeyOf(r, key) : r \in Range(f.rows)})
    IN Frame(Range(key) \cup {col},
             [i \in DOMAIN ks |->
                 [c \in Range(key) \cup {col} |->
                     IF c = col THEN SeriesSum(GroupValues(f.rows, key, ks[i], col))
                     ELSE ks[i][CHOOSE j \in DOMAIN key : key[j] = c]]])

\* df.groupby(key, as_index=False)[col].mean()
GroupByMean(f, key, col) ==
    LET ks == SortedTuples({KeyOf(r, key) : r \in Range(f.rows)})
    IN Frame(Range(key) \cup {col},
             [i \in DOMAIN ks |->
                 [c \in Range(key) \cup {col} |->
                     IF c = col THEN SeriesMean(GroupValues(f.rows, key, ks[i], col))
                     ELSE ks[i][CHOOSE j \in DOMAIN key : key[j] = c]]])

RECURSIVE Concat(_)
Concat(ss) == IF ss = <<>> THEN <<>> ELSE ss[1] \o Concat(Tail(ss))

\* left.merge(right, on=key, how="left") where right has the columns key + col
MergeLeft(left, right, key, col) ==
    Frame(left.columns \cup right.columns,
          Concat([i \in DOMAIN left.rows |->
              LET l == left.rows[i]
                  m == SelectSeq(right.rows, LAMBDA r : KeyOf(r, key) = KeyOf(l, key))
              IN IF m = <<>>
                 THEN << [c \in DOMAIN l \cup {col} |-> IF c = col THEN NaN ELSE l[c]] >>
                 ELSE [j \in DOMAIN m |->
                          [c \in DOMAIN l \cup {col} |->
                              IF c = col THEN m[j][col] ELSE l[c]]]]))

\* df.sort_values(by).reset_index(drop=True): a stable sort
SortValues(f, by) ==
    LET ks == SortedTuples({KeyOf(f.rows[i], by) \o <<i>> : i \in DOMAIN f.rows})
    IN Frame(f.columns, [i \in DOMAIN ks |-> f.rows[ks[i][Len(by) + 1]]])

\* the positions before i of the rows of the group of row i, ascending
GroupBefore(rows, g, i) == Ascending({j \in 1..(i - 1) : rows[j][g] = rows[i][g]})

\* df.groupby(g)[col].shift(n)
GroupShift(f, g, col, n) ==
    [i \in DOMAIN f.rows |->
        LET b == GroupBefore(f.rows, g, i)
        IN IF Len(b) < n THEN NaN ELSE f.rows[b[Len(b) - n + 1]][col]]

\* df.groupby(g)[col].transform(lambda s: s.rolling(w, min_periods=1).mean())
GroupRollingMean(f, g, col, w) ==
    [i \in DOMAIN f.rows |->
        LET b == GroupBefore(f.rows, g, i) \o <<i>>
            lo == IF Len(b) > w THEN Len(b) - w + 1 ELSE 1
        IN SeriesMean([j \in 1..(Len(b) - lo + 1) |-> f.rows[b[lo + j - 1]][col]])]

----------------------------------------------------------------------------
(* prepare_data.py: the script, step by step *)

\* 3) type coercion and normalisation of one row
NormalizeRow(r) ==
    [c \in RawColumns |->
        CASE c = "indicator_name_norm" -> StripLower(r.indicator_name)
          [] c = "nombre_indicador_norm" -> StripLower(r.nombre_indicador)
          [] c = "spatial_dim_type" -> StripUpper(r.spatial_dim_type)
          [] c = "time_dim_type" -> StripUpper(r.time_dim_type)
          [] OTHER -> r[c]]

\* 5) is_dengue
IsDengue(r) ==
    \/ MatchesDengueCases(r.indicator_name_norm)
    \/ MatchesCasosDengue(r.nombre_indicador_norm)

\* 6) is_pop
IsPop(r) ==
    \/ ContainsTotalPopulation(r.indicator_name_norm)
    \/ ContainsPopulationThousand(r.indicator_name_norm)
    \/ StartsWithPopulation(r.indicator_name_norm)
    \/ ContainsPoblaci(r.nombre_indicador_norm)

\* df[df["time_dim_type"].eq(t)]
OfTimeType(f, t) == Frame(f.columns, SelectSeq(f.rows, LAMBDA r : r.time_dim_type = t))

\* .assign(year=lambda d: d["time_dim"].astype(str).str.slice(0, 4).astype(int))
AssignYear(f) == WithColumn(f, "year", [i \in DOMAIN f.rows |-> Slice4(f.rows[i].time_dim)])

YearKey == <<"spatial_dim", "spatial_dim_en", "spatial_dim_es", "year">>
TimeDimKey == <<"spatial_dim", "spatial_dim_en", "spatial_dim_es", "time_dim">>

\* 7) the condition of the if: "YEAR" in dengue["time_dim_type"].unique()
HasYearRows(f) == \E r \in Range(f.rows) : r.time_dim_type = "YEAR"

\* 7) dengue_y of either branch
ChooseDengue(d) ==
    IF HasYearRows(d) THEN OfTimeType(d, "YEAR")
    ELSE GroupBySum(AssignYear(OfTimeType(d, "MONTH")), YearKey, "numeric_value")

\* a variant of ChoosePop that decides from the population rows themselves
ChoosePopIndependently(d, p) ==
    IF HasYearRows(p) THEN OfTimeType(p, "YEAR")
    ELSE GroupByMean(AssignYear(OfTimeType(p, "MONTH")), YearKey, "numeric_value")

\* 7) pop_y of either branch: the branch is the one taken for dengue
ChoosePop(d, p) ==
    IF HasYearRows(d) THEN OfTimeType(p, "YEAR")
    ELSE GroupByMean(AssignYear(OfTimeType(p, "MONTH")), YearKey, "numeric_value")

\* 8) pop_y["is_thousands"]
IsThousands(r) ==
    ContainsThousand(r.indicator_name_norm) \/ ContainsMil(r.nombre_indicador_norm)

\* 8) pop_y["population"] = np.where(is_thousands, population_raw * 1000, population_raw)
Population(r) ==
    IF IsThousands(r) THEN RatMul(r.population_raw, Num(1000)) ELSE r.population_raw

\* 9) key
GroupKey(f) == IF "year" \in f.columns THEN YearKey ELSE TimeDimKey

\* a variant of ReplaceZero that leaves a zero population in place
ReplaceZeroOmitted(x) == x

\* 11) Series.replace(0, np.nan)
ReplaceZero(x) == IF x = Num(0) THEN NaN ELSE x

\* 11) cases_per_100k of one row
CasesPer100k(r) ==
    RatMul(RatDiv(r.dengue_cases, ReplaceZero(r.population)), Num(100000))

NoFrame == Frame({}, <<>>)

InitPrepare ==
    /\ pc = "start"
    /\ error = ""
    /\ \/ columns = Required /\ df \in {Frame(Required, t) : t \in RawTables}
       \/ \E c \in Required :
            /\ columns = Required \ {c}
            /\ df = Frame(Required \ {c}, <<>>)
    /\ dengue = NoFrame /\ pop = NoFrame
    /\ dengue_y = NoFrame /\ pop_y = NoFrame
    /\ df_yr = NoFrame
    /\ out_file = <<>>
    /\ feat = <<>> /\ sdf = <<>> /\ raw_scores = <<>> /\ scored_file = <<>>
    /\ app_df = <<>> /\ year = 0 /\ dfy = <<>> /\ payload = <<>> /\ before = <<>>
    /\ outcome = "" /\ resp_scores = <<>> /\ message = ""

\* 2) a required column is missing: ValueError, nothing is written
CheckColumnsFail ==
    /\ pc = "start"
    /\ ~(Required \subseteq columns)
    /\ pc' = "failed"
    /\ error' = "ValueError"
    /\ UNCHANGED <<prepVars, scoreVars, appVars>>

\* 2)-6) all columns are there: normalise, keep COUNTRY rows, split off dengue and pop
Classify ==
    /\ pc = "start"
    /\ Required \subseteq columns
    /\ LET norm == [i \in DOMAIN df.rows |-> NormalizeRow(df.rows[i])]
           kept == SelectSeq(norm, LAMBDA r : r.spatial_dim_type = "COUNTRY")
       IN /\ df' = Frame(RawColumns, kept)
          /\ dengue' = Frame(RawColumns, SelectSeq(kept, IsDengue))
          /\ pop' = Frame(RawColumns, SelectSeq(kept, IsPop))
    /\ pc' = "classified"
    /\ UNCHANGED <<error, columns, dengue_y, pop_y, df_yr, out_file, scoreVars, appVars>>

\* 7) choose the time dimension
ChooseTimeDimension ==
    /\ pc = "classified"
    /\ dengue_y' = ChooseDengue(dengue)
    /\ pop_y' = ChoosePop(dengue, pop)
    /\ pc' = "chosen"
    /\ UNCHANGED <<error, columns, df, dengue, pop, df_yr, out_file, scoreVars, appVars>>

\* 8) pop_y["indicator_name_norm"] on a frame without that column: KeyError
ConsolidateFail ==
    /\ pc = "chosen"
    /\ ~({"indicator_name_norm", "nombre_indicador_norm"} \subseteq pop_y.columns)
    /\ pc' = "failed"
    /\ error' = "KeyError"
    /\ dengue_y' = Rename(dengue_y, "numeric_value", "dengue_cases")
    /\ pop_y' = Rename(pop_y, "numeric_value", "population_raw")
    /\ UNCHANGED <<columns, df, dengue, pop, df_yr, out_file, scoreVars, appVars>>

\* 8)-9) rename, correct the thousands, group by the key
Consolidate ==
    /\ pc = "chosen"
    /\ {"indicator_name_norm", "nombre_indicador_norm"} \subseteq pop_y.columns
    /\ LET d == Rename(dengue_y, "numeric_value", "dengue_cases")
           p1 == Rename(pop_y, "numeric_value", "population_raw")
           p2 == WithColumn(p1, "is_thousands",
                            [i \in DOMAIN p1.rows |-> IsThousands(p1.rows[i])])
           p3 == WithColumn(p2, "population",
                            [i \in DOMAIN p2.rows |-> Population(p2.rows[i])])
           key == GroupKey(d)
       IN /\ dengue_y' = GroupBySum(d, key, "dengue_cases")
          /\ pop_y' = GroupByMean(p3, key, "population")
    /\ pc' = "grouped"
    /\ UNCHANGED <<error, columns, df, dengue, pop, df_yr, out_file, scoreVars, appVars>>

\* 10)-11) merge cases and population, derive year, cases per 100k
MergeAndRate ==
    /\ pc = "grouped"
    /\ LET m == MergeLeft(dengue_y, pop_y, GroupKey(dengue_y), "population")
           y == IF "year" \notin m.columns THEN AssignYear(m) ELSE m
       IN df_yr' = WithColumn(y, "cases_per_100k",
                              [i \in DOMAIN y.rows |-> CasesPer100k(y.rows[i])])
    /\ pc' = "merged"
    /\ UNCHANGED <<error, columns, df, dengue, pop, dengue_y, pop_y, out_file,
                   scoreVars, appVars>>

\* 12) sort and generate lags and moving averages by country
LagsOf(f) ==
    LET s == SortValues(f, <<"spatial_dim", "year">>)
        l1 == WithColumn(s, "lag_cases_1", GroupShift(s, "spatial_dim", "dengue_cases", 1))
        l2 == WithColumn(l1, "lag_cases_2", GroupShift(l1, "spatial_dim", "dengue_cases", 2))
    IN WithColumn(l2, "ma3_cases", GroupRollingMean(l2, "spatial_dim", "dengue_cases", 3))

SortAndLag ==
    /\ pc = "merged"
    /\ df_yr' = LagsOf(df_yr)
    /\ pc' = "featured"
    /\ UNCHANGED <<error, columns, df, dengue, pop, dengue_y, pop_y, out_file,
                   scoreVars, appVars>>

\* 14) df_yr.to_csv(OUT_FILE, index=False)
Save ==
    /\ pc = "featured"
    /\ out_file' = df_yr.rows
    /\ pc' = "done"
    /\ UNCHANGED <<error, columns, df, dengue, pop, dengue_y, pop_y, df_yr,
                   scoreVars, appVars>>

NextPrepare ==
    \/ CheckColumnsFail
    \/ Classify
    \/ ChooseTimeDimension
    \/ ConsolidateFail
    \/ Consolidate
    \/ MergeAndRate
    \/ SortAndLag
    \/ Save

SpecPrepare == InitPrepare /\ [][NextPrepare]_vars

----------------------------------------------------------------------------
(* Properties of prepare_data.py *)

\* the rows of country r.spatial_dim of the year before r.year
YearBefore(rows, r) ==
    {q \in Range(rows) : q.spatial_dim = r.spatial_dim /\ q.year = r.year - 1}

\* at most one row per country and year
OneRowPerCountryYear(rows) ==
    \A i, j \in DOMAIN rows :
        (rows[i].spatial_dim = rows[j].spatial_dim /\ rows[i].year = rows[j].year) => i = j

\* C1: in the written feature table, lag_cases_1 at (C, Y) is dengue_cases at
\* (C, Y-1) when C has a row for Y-1, and null when C has no row for Y-1
\* (stated for the tables with one row per country and year, where "the row
\* of C for Y-1" is one row).
C1_LagIsPreviousYear ==
    (pc = "done" /\ OneRowPerCountryYear(out_file)) =>
        \A r \in Range(out_file) :
            /\ \A q \in YearBefore(out_file, r) : r.lag_cases_1 = q.dengue_cases
            /\ YearBefore(out_file, r) = {} => IsNaN(r.lag_cases_1)

\* C2: the feature table holds at most one row per (spatial_dim, year).
C2_OneRowPerCountryYear ==
    pc = "done" => OneRowPerCountryYear(out_file)

\* the dengue_cases of the rows of the country of row i before row i, in table order
CasesBefore(rows, i) ==
    LET b == Ascending({j \in 1..(i - 1) : rows[j].spatial_dim = rows[i].spatial_dim})
    IN [k \in DOMAIN b |-> rows[b[k]].dengue_cases]

\* the k-th last element of s, NaN when s is shorter
KthLast(s, k) == IF Len(s) < k THEN NaN ELSE s[Len(s) - k + 1]

\* the mean of the last (at most three) elements of s
MeanOfLastThree(s) ==
    LET n == IF Len(s) > 3 THEN 3 ELSE Len(s)
    IN RatDiv(SumSeq(SubSeq(s, Len(s) - n + 1, Len(s))), Num(n))

\* C7: in the written feature table cases_per_100k is null when population is
\* null or zero and dengue_cases / population * 100000 otherwise; the step that
\* computes it raises nothing and divides by no zero; the lags and the moving
\* average are those of the case counts alone, whatever the populations are.
C7_RateNullOnZeroOrMissingPopulation ==
    /\ pc \in {"merged", "featured", "done"} =>
        /\ error = ""
        /\ \A r \in Range(df_yr.rows) : r.cases_per_100k # Inf
    /\ pc = "done" =>
        \A i \in DOMAIN out_file :
            LET r == out_file[i]
                before_i == CasesBefore(out_file, i)
            IN /\ (IsNaN(r.population) \/ r.population = Num(0)) => IsNaN(r.cases_per_100k)
               /\ ~(IsNaN(r.population) \/ r.population = Num(0)) =>
                     /\ IsFinite(r.cases_per_100k)
                     /\ RatMul(r.cases_per_100k, r.population)
                            = RatMul(r.dengue_cases, Num(100000))
               /\ r.lag_cases_1 = KthLast(before_i, 1)
               /\ r.lag_cases_2 = KthLast(before_i, 2)
               /\ r.ma3_cases = MeanOfLastThree(before_i \o <<r.dengue_cases>>)

\* C7 witness: a written table with a row of population zero and cases, whose
\* rate is null and whose lag is the case count of the row before, and a row
\* whose rate is a number.
C7_Witness ==
    /\ pc = "done"
    /\ \E r \in Range(out_file) :
        /\ r.population = Num(0)
        /\ r.dengue_cases # Num(0)
        /\ IsNaN(r.cases_per_100k)
        /\ ~IsNaN(r.lag_cases_1)
    /\ \E r \in Range(out_file) : IsNaN(r.population) /\ IsNaN(r.cases_per_100k)
    /\ \A r \in Range(out_file) : IsNaN(r.cases_per_100k)

C10_MonthFallbackCompletes ==
    (/\ Required \subseteq columns
     /\ pc # "start"
     /\ \E r \in Range(dengue.rows) : r.time_dim_type = "MONTH"
     /\ ~\E r \in Range(dengue.rows) : r.time_dim_type = "YEAR") => error = ""

----------------------------------------------------------------------------
(* risk_score.py *)

\* most rows of the feature table read by risk_score.py
MaxBatch == 3
\* the anomaly magnitudes of a batch range over 1..MaxMagnitude and WideMagnitude
MaxMagnitude == 2
WideMagnitude == 10001

FEATURES == {"cases_per_100k", "lag_cases_1", "lag_cases_2", "ma3_cases"}

FeatureRow(sd, y, cases, population, rate, l1, l2, ma3) ==
    [spatial_dim |-> sd, year |-> y, dengue_cases |-> cases, population |-> population,
     cases_per_100k |-> rate, lag_cases_1 |-> l1, lag_cases_2 |-> l2, ma3_cases |-> ma3]

\* rows of a feature table as prepare_data.py writes them: a first year, a
\* second year with population zero, a third year without population, a third
\* year with every feature present
FeaturePool ==
    { FeatureRow(1, 2020, Num(1), Num(100000), Num(1), NaN, NaN, Num(1)),
      FeatureRow(1, 2021, Num(2), Num(0), NaN, Num(1), NaN, Rat(3, 2)),
      FeatureRow(1, 2022, Num(0), NaN, NaN, Num(2), Num(1), Num(1)),
      FeatureRow(2, 2022, Num(3), Num(100000), Num(3), Num(2), Num(1), Num(2)) }

FeatureTables ==
    UNION {[1..n -> FeaturePool] : n \in 0..MaxBatch}

\* the raw scores are held in units of 1e-9, the epsilon of the normalisation
Magnitudes == {Num(k) : k \in (1..MaxMagnitude) \cup {WideMagnitude}}

\* the 1e-9 of the normalisation, in units of 1e-9
Epsilon == Num(1)

\* df[FEATURES].fillna(0) of one row
FillNa(r) == [c \in DOMAIN r |-> IF c \in FEATURES /\ IsNaN(r[c]) THEN Num(0) ELSE r[c]]

FeatureVector(r) == [c \in FEATURES |-> r[c]]

MinOf(s) == CHOOSE x \in Range(s) : \A y \in Range(s) : RatLeq(x, y)
MaxOf(s) == CHOOSE x \in Range(s) : \A y \in Range(s) : RatLeq(y, x)

\* a variant of RiskScore that does not subtract the minimum
RiskScoreUnshifted(raw, i) ==
    RatDiv(RatMul(Num(100), raw[i]),
           RatAdd(RatSub(MaxOf(raw), MinOf(raw)), Epsilon))

\* a variant of RiskScore that divides by the maximum instead of the spread
RiskScoreByMax(raw, i) ==
    RatDiv(RatMul(Num(100), RatSub(raw[i], MinOf(raw))),
           RatAdd(MaxOf(raw), Epsilon))

\* 100 * (raw_scores - raw_scores.min()) / (raw_scores.max() - raw_scores.min() + 1e-9)
RiskScore(raw, i) ==
    RatDiv(RatMul(Num(100), RatSub(raw[i], MinOf(raw))),
           RatAdd(RatSub(MaxOf(raw), MinOf(raw)), Epsilon))

InitScore ==
    /\ pc = "start"
    /\ error = ""
    /\ feat \in FeatureTables
    /\ sdf = feat
    /\ raw_scores = <<>>
    /\ scored_file = <<>>
    /\ columns = {} /\ df = NoFrame /\ dengue = NoFrame /\ pop = NoFrame
    /\ dengue_y = NoFrame /\ pop_y = NoFrame /\ df_yr = NoFrame /\ out_file = <<>>
    /\ app_df = <<>> /\ year = 0 /\ dfy = <<>> /\ payload = <<>> /\ before = <<>>
    /\ outcome = "" /\ resp_scores = <<>> /\ message = ""

\* df[FEATURES] = df[FEATURES].fillna(0)
FillFeatures ==
    /\ pc = "start"
    /\ sdf' = [i \in DOMAIN sdf |-> FillNa(sdf[i])]
    /\ pc' = "filled"
    /\ UNCHANGED <<error, feat, raw_scores, scored_file, prepVars, appVars>>

\* model.fit on a table without rows: ValueError
FitFail ==
    /\ pc = "filled"
    /\ sdf = <<>>
    /\ pc' = "failed"
    /\ error' = "ValueError"
    /\ UNCHANGED <<scoreVars, prepVars, appVars>>

\* model.fit, raw_scores = -model.score_samples: some magnitude per row, the
\* same for rows of the same feature vector
FitAndScore ==
    /\ pc = "filled"
    /\ sdf # <<>>
    /\ \E m \in [DOMAIN sdf -> Magnitudes] :
        /\ \A i, j \in DOMAIN sdf :
              FeatureVector(sdf[i]) = FeatureVector(sdf[j]) => m[i] = m[j]
        /\ raw_scores' = m
    /\ pc' = "scored"
    /\ UNCHANGED <<error, feat, sdf, scored_file, prepVars, appVars>>

\* df["risk_score"] = ...
Normalize ==
    /\ pc = "scored"
    /\ sdf' = [i \in DOMAIN sdf |->
                  [c \in DOMAIN sdf[i] \cup {"risk_score"} |->
                      IF c = "risk_score" THEN RiskScore(raw_scores, i) ELSE sdf[i][c]]]
    /\ pc' = "normalized"
    /\ UNCHANGED <<error, feat, raw_scores, scored_file, prepVars, appVars>>

\* df.to_csv("data/processed/episense_annual_with_risk.csv", index=False)
SaveScored ==
    /\ pc = "normalized"
    /\ scored_file' = sdf
    /\ pc' = "done"
    /\ UNCHANGED <<error, feat, sdf, raw_scores, prepVars, appVars>>

NextScore ==
    \/ FillFeatures
    \/ FitFail
    \/ FitAndScore
    \/ Normalize
    \/ SaveScored

SpecScore == InitScore /\ [][NextScore]_vars

----------------------------------------------------------------------------
(* Properties of risk_score.py *)

\* C3: every risk_score of a scored batch lies in [0, 100].
C3_RiskScoreWithinBounds ==
    pc \in {"normalized", "done"} =>
        \A i \in DOMAIN sdf :
            /\ IsFinite(sdf[i].risk_score)
            /\ RatLeq(Num(0), sdf[i].risk_score)
            /\ RatLeq(sdf[i].risk_score, Num(100))

\* C3 witness: a written batch of several rows whose magnitudes are all equal.
C3_Witness ==
    /\ pc = "done"
    /\ Len(scored_file) > 1
    /\ \A i \in DOMAIN raw_scores : raw_scores[i] = raw_scores[1]
    /\ \A i \in DOMAIN scored_file : scored_file[i].risk_score = Num(0)

\* within one hundredth of 100
NearHundred(x) == RatLeq(RatSub(Num(100), x), Rat(1, 100))

\* C4 as stated: in every batch the row of the maximal magnitude scores 100
\* (within a tolerance) and the row of the minimal magnitude scores 0.
C4_MaxScoresHundred ==
    pc \in {"normalized", "done"} =>
        \A i \in DOMAIN sdf :
            /\ raw_scores[i] = MaxOf(raw_scores) => NearHundred(sdf[i].risk_score)
            /\ raw_scores[i] = MinOf(raw_scores) => sdf[i].risk_score = Num(0)

\* C4 amended: the row of the minimal magnitude scores 0; the row of the
\* maximal magnitude has the largest score of the batch, which is
\* 100 * (max - min) / (max - min + epsilon): below 100, within
\* 100 * epsilon / (max - min) of 100 when max > min, and 0 when all
\* magnitudes are equal.
C4_MaxScoresBelowHundred ==
    pc \in {"normalized", "done"} =>
        LET spread == RatSub(MaxOf(raw_scores), MinOf(raw_scores))
        IN \A i \in DOMAIN sdf :
            /\ raw_scores[i] = MinOf(raw_scores) => sdf[i].risk_score = Num(0)
            /\ raw_scores[i] = MaxOf(raw_scores) =>
                LET top == sdf[i].risk_score
                IN /\ \A j \in DOMAIN sdf : RatLeq(sdf[j].risk_score, top)
                   /\ RatMul(top, RatAdd(spread, Epsilon)) = RatMul(Num(100), spread)
                   /\ top # Num(100) /\ RatLeq(top, Num(100))
                   /\ RatLeq(RatMul(RatSub(Num(100), top), spread),
                             RatMul(Num(100), Epsilon))
                   /\ spread = Num(0) => top = Num(0)

\* C4 witness: a written batch of one row, whose row is the maximal one and
\* scores 0.
C4_Witness ==
    /\ pc = "done"
    /\ Len(scored_file) = 1
    /\ raw_scores[1] = MaxOf(raw_scores)
    /\ scored_file[1].risk_score = Num(0)

\* C8: the scored table has the rows of the feature table in their order, and
\* every column of the feature table holds in it the value it had.
C8_FeatureColumnsKept ==
    pc = "done" =>
        /\ Len(scored_file) = Len(feat)
        /\ \A i \in DOMAIN feat : \A c \in DOMAIN feat[i] : scored_file[i][c] = feat[i][c]

----------------------------------------------------------------------------
(* app.py: the recalculation of the risk from the remote scorer *)

\* most numbers in the risk_score of a response
MaxResponse == 3

\* risk scores of the loaded table, and scores a response holds
LoadedScores == {Num(0), Num(100)}
ResponseScores == {Num(10), Num(20)}

\* the tables load_csv returns: rows of the scored table in the order
\* prepare_data.py sorts them, each with a risk_score and, as "index", its
\* label in the RangeIndex of read_csv
ScoredRow(r, score) ==
    [c \in DOMAIN r \cup {"risk_score"} |-> IF c = "risk_score" THEN score ELSE r[c]]

Indexed(rows) ==
    [i \in DOMAIN rows |->
        [c \in DOMAIN rows[i] \cup {"index"} |-> IF c = "index" THEN i - 1 ELSE rows[i][c]]]

SortedPool(S) ==
    LET ks == SortedTuples({<<r.spatial_dim, r.year>> : r \in S})
    IN [i \in DOMAIN ks |->
           CHOOSE r \in S : r.spatial_dim = ks[i][1] /\ r.year = ks[i][2]]

AppTables ==
    UNION {{Indexed([i \in DOMAIN SortedPool(S) |-> ScoredRow(SortedPool(S)[i], f[i])]) :
                f \in [DOMAIN SortedPool(S) -> LoadedScores]} :
           S \in SUBSET FeaturePool \ {{}}}

\* years = sorted(df["year"].dropna().unique().tolist())
Years(t) == {r.year : r \in Range(t)}
MinYear(t) == CHOOSE y \in Years(t) : \A z \in Years(t) : y <= z
MaxYear(t) == CHOOSE y \in Years(t) : \A z \in Years(t) : z <= y

\* dfy = df[df["year"] == year].copy(): the rows keep their index labels
YearRows(t, y) == SelectSeq(t, LAMBDA r : r.year = y)

\* dfy[FEATURES].fillna(0).to_dict("records")
Payload(d) == [i \in DOMAIN d |-> [c \in FEATURES |-> IF IsNaN(d[i][c]) THEN Num(0) ELSE d[i][c]]]

\* dfy["risk_score"] = pd.Series(scores): the series has the labels
\* 0..len-1 and the assignment aligns it on the index labels of dfy
AssignSeries(d, scores) ==
    [i \in DOMAIN d |->
        [d[i] EXCEPT !.risk_score =
            IF d[i].index + 1 \in DOMAIN scores THEN scores[d[i].index + 1] ELSE NaN]]

\* what a POST can come to: an exception of requests.post, of raise_for_status,
\* of resp.json, of json.loads, of the test "risk_score" in data on a value
\* that is no container; a decoded object without the key; a decoded object
\* with the key, sent as an object or as a string holding it
Raising == {"timeout", "transport", "http_status", "invalid_json",
            "invalid_json_string", "not_a_container"}
Lacking == {"no_risk_score"}
Succeeding == {"object", "string"}

\* a variant of Recalculated that reads data.get("risk_score") without the test
RecalculatedWithoutKeyTest(d, out, scores) ==
    IF out \in Raising
    THEN [dfy |-> d, message |-> "error"]
    ELSE IF out \in Lacking
    THEN [dfy |-> AssignSeries(d, <<>>), message |-> "success"]
    ELSE [dfy |-> AssignSeries(d, scores), message |-> "success"]

\* the body of the button: try / except around the POST and the assignment
Recalculated(d, out, scores) ==
    IF out \in Raising
    THEN [dfy |-> d, message |-> "error"]
    ELSE IF out \in Lacking
    THEN [dfy |-> d, message |-> "error"]
    ELSE [dfy |-> AssignSeries(d, scores), message |-> "success"]

Responses == UNION {[1..n -> ResponseScores] : n \in 0..MaxResponse}

InitApp ==
    /\ pc = "ready"
    /\ error = ""
    /\ app_df \in AppTables
    /\ year = MaxYear(app_df)
    /\ dfy = YearRows(app_df, year)
    /\ payload = <<>> /\ before = <<>>
    /\ outcome = "" /\ resp_scores = <<>> /\ message = ""
    /\ columns = {} /\ df = NoFrame /\ dengue = NoFrame /\ pop = NoFrame
    /\ dengue_y = NoFrame /\ pop_y = NoFrame /\ df_yr = NoFrame /\ out_file = <<>>
    /\ feat = <<>> /\ sdf = <<>> /\ raw_scores = <<>> /\ scored_file = <<>>

\* the year slider is moved: the script runs again with the button not pressed
MoveSlider ==
    /\ pc = "ready"
    /\ \E y \in MinYear(app_df)..MaxYear(app_df) :
        /\ year' = y
        /\ dfy' = YearRows(app_df, y)
    /\ payload' = <<>> /\ before' = <<>>
    /\ outcome' = "" /\ resp_scores' = <<>> /\ message' = ""
    /\ UNCHANGED <<pc, error, app_df, prepVars, scoreVars>>

\* "Recalculate from Cloud now": the script run of the pressed button, with
\* what the POST comes to and, when it succeeds, the risk_score it returns
RecalculateFromCloud ==
    /\ pc = "ready"
    /\ \E out \in Raising \cup Lacking \cup Succeeding :
       \E scores \in (IF out \in Succeeding THEN Responses ELSE {<<>>}) :
          LET d == YearRows(app_df, year)
              r == Recalculated(d, out, scores)
          IN /\ payload' = Payload(d)
             /\ before' = d
             /\ outcome' = out
             /\ resp_scores' = scores
             /\ dfy' = r.dfy
             /\ message' = r.message
    /\ UNCHANGED <<pc, error, app_df, year, prepVars, scoreVars>>

NextApp ==
    \/ MoveSlider
    \/ RecalculateFromCloud

SpecApp == InitApp /\ [][NextApp]_vars

----------------------------------------------------------------------------
(* Properties of app.py *)

\* C5: when the recalculation fails in any way an error is reported and every
\* row of the year's table has the risk_score it had before the request.
C5_FailureKeepsScores ==
    outcome \in Raising \cup Lacking =>
        /\ message = "error"
        /\ Len(dfy) = Len(before)
        /\ \A i \in DOMAIN dfy :
              /\ dfy[i].index = before[i].index
              /\ dfy[i].risk_score = before[i].risk_score
              /\ dfy[i].risk_score = app_df[dfy[i].index + 1].risk_score

\* C5 witness: a response without risk_score for a year with rows: an error
\* is shown and the rows hold their scores.
C5_Witness ==
    /\ outcome = "no_risk_score"
    /\ message = "error"
    /\ Len(dfy) > 1
    /\ payload # <<>>
    /\ dfy = before

\* C6: after a successful recalculation the k-th row of the year's table has
\* the k-th number of the response (a response of one number per record).
C6_ScoresInPayloadOrder ==
    (outcome \in Succeeding /\ Len(resp_scores) = Len(payload)) =>
        \A k \in DOMAIN dfy : dfy[k].risk_score = resp_scores[k]

====
